---- MODULE Spec2Model ----
(***************************************************************************)
(* A model of trainer/abs_trainer.py: the Trainer epoch loop, its top-k    *)
(* checkpoint collection, the validation-metric aggregation, the gradient  *)
(* sanitization, the run-version resolver and the processes of a           *)
(* multi-process run meeting in all_gather.                                *)
(*                                                                         *)
(* Floating point numbers are modelled as pairs <<n, d>>: a finite value   *)
(* is the reduced fraction n/d with d > 0, NaN is <<0, 0>> (the 0/0 that   *)
(* numpy.nanmean computes for an empty slice), +inf is <<1, 0>> and -inf   *)
(* is <<-1, 0>>.  Rounding is not modelled.                                *)
(***************************************************************************)
EXTENDS Integers, Sequences, FiniteSets, TLC

VARIABLES
    \* ---- TrainConfig (lines 22-35); cfg_patience is config.patience and
    \* sched_freq the frequency tag of get_scheduler, "none" without one ----
    save_topk, metric_min_better, max_epoch, warmup, cfg_patience, sched_freq,
    \* ---- Trainer state (lines 60-75) ----
    local_rank, global_step, valid_global_step, epoch, last_valid_metric,
    topk_ckpt_map, patience,
    \* ---- position of the process inside train() (lines 229-257), the
    \* index of the next batch, the list metric_arr of _valid_epoch and the
    \* mode model.eval() / model.train() left the model in ----
    pc, batch_i, metric_arr, model_mode,
    \* ---- calls of optimizer.step(), warmup_scheduler.step() and
    \* scheduler.step() so far (lines 129, 134, 136, 138, 187) ----
    optimizer_steps, warmup_sched_steps, sched_steps,
    \* ---- the file system under config.save_dir: the checkpoint blobs, the
    \* lines of topk_map.txt, whether train_config.json is written ----
    blobs, manifest, config_manifest,
    \* ---- history variables: the records ever inserted, the values this
    \* validation phase has seen, the branch of the last judgement and the
    \* number of judgements since the last improvement, the best non-NaN
    \* aggregate the coordinator has judged (None before the first) ----
    inserted, seen_metrics, improved, since_improve, best_metric,
    \* ---- the gradients loss.backward() produced and the ones the
    \* parameters hold, one entry per parameter (lines 112-116) ----
    grad_pc, grad_raw, grad,
    \* ---- save_dir as _get_version sees it and the values it returned ----
    dir_exists, dir_entries, versions,
    \* ---- the processes of a multi-process run, one record per rank: the
    \* Trainer fields of the process, its position in train() and the
    \* values it has handed to torch.distributed.all_gather, call by call ----
    procs

cfgVars   == <<save_topk, metric_min_better, max_epoch, warmup, cfg_patience, sched_freq>>
stateVars == <<local_rank, global_step, valid_global_step, epoch, last_valid_metric, patience>>
posVars   == <<pc, batch_i, metric_arr, model_mode>>
collabVars == <<optimizer_steps, warmup_sched_steps, sched_steps>>
topkVars  == <<topk_ckpt_map, blobs, manifest, inserted>>
ghostVars == <<seen_metrics, improved, since_improve, best_metric>>
gradVars  == <<grad_pc, grad_raw, grad>>
verVars   == <<dir_exists, dir_entries, versions>>
distVars  == <<procs>>

vars == <<cfgVars, stateVars, posVars, collabVars, topkVars, config_manifest,
          ghostVars, gradVars, verVars, distVars>>

(***************************************************************************)
(* Bounds of the model.                                                    *)
(***************************************************************************)
MaxInserts == 4
NumTrainBatches == 2
NumValidBatches == 2
MaxEpoch == 3
PatienceEpochs == 5
ValidEpochs == 2
MaxWarmup == 3
MaxTopk == 2
WorldSize == 2
NumParams == 1
GradLen == 1
MaxEntries == 3
MaxCalls == 2

(***************************************************************************)
(* Floating point values.                                                  *)
(***************************************************************************)
NaN    == <<0, 0>>
PosInf == <<1, 0>>
NegInf == <<-1, 0>>

Abs(x) == IF x < 0 THEN -x ELSE x

RECURSIVE GCD(_, _)
GCD(a, b) == IF b = 0 THEN a ELSE GCD(b, a % b)

\* the float n/d; 0/0 is NaN
Frac(n, d) ==
    IF d = 0 THEN (IF n = 0 THEN NaN ELSE IF n > 0 THEN PosInf ELSE NegInf)
    ELSE LET g == GCD(Abs(n), d) IN <<n \div g, d \div g>>

Num(k) == <<k, 1>>

IsNaN(x) == x = NaN
IsFinite(x) == x[2] > 0

\* a < b on floats: every comparison with NaN is false
Lt(a, b) == /\ ~IsNaN(a)
            /\ ~IsNaN(b)
            /\ a[1] * b[2] < b[1] * a[2]

None == <<>>

(***************************************************************************)
(* The top-k checkpoint collection.  A record is the tuple <<metric, path>>*)
(***************************************************************************)
\* the lambdas `better` of _maintain_topk_checkpoint
Better(a, b) == IF metric_min_better THEN Lt(a, b) ELSE Lt(b, a)

\* a scan that never finds a place: the record is appended
InsertPosAppend(map, valid_metric) == Len(map) + 1

\* the scan for insert_pos, 1-based
InsertPos(map, valid_metric) ==
    IF \E i \in 1..Len(map) : Better(valid_metric, map[i][1])
    THEN CHOOSE i \in 1..Len(map) :
            /\ Better(valid_metric, map[i][1])
            /\ \A j \in 1..(i - 1) : ~Better(valid_metric, map[j][1])
    ELSE Len(map) + 1

\* list.insert(pos, rec)
ListInsert(map, pos, rec) ==
    SubSeq(map, 1, pos - 1) \o <<rec>> \o SubSeq(map, pos, Len(map))

\* `if topk > 0`
TopkEvicts(topk) == topk > 0

\* an eviction that pops the records and leaves their blobs
EvictLoopNoRemove(map, files, topk) ==
    [map |-> IF Len(map) > topk THEN SubSeq(map, 1, topk) ELSE map, files |-> files]

\* `while len(map) > topk`: os.remove the last record's blob and pop it
RECURSIVE EvictLoop(_, _, _)
EvictLoop(map, files, topk) ==
    IF Len(map) > topk
    THEN EvictLoop(SubSeq(map, 1, Len(map) - 1), files \ {map[Len(map)][2]}, topk)
    ELSE [map |-> map, files |-> files]

\* one line of topk_map.txt
ManifestLine(rec) == <<rec[1], ": ", rec[2], "\n">>

\* the manifest opened in mode 'a'
WriteManifestAppend(old, map) == old \o [i \in 1..Len(map) |-> ManifestLine(map[i])]

\* open(topk_map_path, 'w') truncates, then one line per record is written
WriteManifest(old, map) == [i \in 1..Len(map) |-> ManifestLine(map[i])]

\* _maintain_topk_checkpoint as a function of the collection, the files and
\* the manifest
MaintainTopk(map, files, mf, valid_metric, ckpt_path) ==
    LET ins == ListInsert(map, InsertPos(map, valid_metric), <<valid_metric, ckpt_path>>)
        ev  == IF TopkEvicts(save_topk) THEN EvictLoop(ins, files, save_topk)
               ELSE [map |-> ins, files |-> files]
    IN  [map |-> ev.map, files |-> ev.files, manifest |-> WriteManifest(mf, ev.map)]

(***************************************************************************)
(* The validation-metric aggregation.                                      *)
(***************************************************************************)
RECURSIVE NanSum(_)
NanSum(arr) ==
    IF Len(arr) = 0 THEN Num(0)
    ELSE LET r == NanSum(Tail(arr))
             h == IF IsNaN(Head(arr)) THEN Num(0) ELSE Head(arr)
         IN  Frac(h[1] * r[2] + r[1] * h[2], h[2] * r[2])

RECURSIVE NanCount(_)
NanCount(arr) ==
    IF Len(arr) = 0 THEN 0
    ELSE (IF IsNaN(Head(arr)) THEN 0 ELSE 1) + NanCount(Tail(arr))

\* nansum in the place of nanmean
NanMeanSumOnly(arr) == IF NanCount(arr) = 0 THEN NaN ELSE NanSum(arr)

\* numpy.nanmean: NaN entries count as zero in the sum and are left out of
\* the count; an empty or all-NaN input gives 0/0 = NaN (with a warning)
NanMean(arr) ==
    LET s == NanSum(arr)
        c == NanCount(arr)
    IN  Frac(s[1], s[2] * c)

\* torch.distributed.all_gather on rank 0: the world_size values in rank order
Gathered(metric, peers) == <<metric>> \o peers

(***************************************************************************)
(* Gradient sanitization                                                   *)
(***************************************************************************)
\* stands for torch.finfo(dtype).max, the value nan_to_num puts for +inf
FloatMax == 2147483647

\* only NaN replaced, as by a test on isnan alone
NanToNumKeepInf(x) == IF IsNaN(x) THEN Num(0) ELSE x

\* torch.nan_to_num with its default arguments, on one entry
NanToNum(x) ==
    IF IsNaN(x) THEN Num(0)
    ELSE IF x = PosInf THEN Num(FloatMax)
    ELSE IF x = NegInf THEN Num(-FloatMax)
    ELSE x

\* replace_nan_gradients: a parameter without a gradient (None) is skipped
ReplaceNanGradients(grads) ==
    [p \in 1..Len(grads) |->
        IF grads[p] = None THEN None
        ELSE [k \in 1..Len(grads[p]) |-> NanToNum(grads[p][k])]]

\* the gradients a backward pass can leave: per parameter none, or a tensor
GradEntries == {NaN, PosInf, NegInf, Num(-2)}
GradTensors == [1..NumParams -> {None} \cup [1..GradLen -> GradEntries]]

\* one such gradient, for the runs that are not about gradients
GradSample == {[p \in 1..NumParams |-> [k \in 1..GradLen |-> NaN]]}

(***************************************************************************)
(* Trainer                                                                 *)
(***************************************************************************)
\* every process taken for the coordinator
IsMainProcAnyRank == local_rank >= -1

IsMainProc == local_rank = 0 \/ local_rank = -1

\* torch.cuda.is_available() and torch.distributed.is_initialized(): the
\* process group is up exactly in the runs started with a rank
Distributed == local_rank # -1

\* _metric_better with self.last_valid_metric = old
MetricBetterThan(old, new) ==
    IF old = None THEN TRUE
    ELSE IF metric_min_better THEN Lt(new, old)
    ELSE Lt(old, new)

\* the comparison with <= in the place of <
MetricBetterOrEqual(new) ==
    \/ last_valid_metric = None
    \/ ~IsNaN(new) /\ ~IsNaN(last_valid_metric)
         /\ ~MetricBetterThan(new, last_valid_metric)

MetricBetter(new) == MetricBetterThan(last_valid_metric, new)

\* the best non-NaN aggregate after one more aggregate
BestOf(best, valid_metric) ==
    IF IsNaN(valid_metric) THEN best
    ELSE IF best = None \/ Better(valid_metric, best) THEN valid_metric
    ELSE best

\* `self.patience -= 1`
PatienceDecr(p) == p - 1

\* the break taken one validation phase late
PatienceExhaustedStrict(p) == p < 0

\* `if self.patience <= 0: break`
PatienceExhausted(p) == p <= 0

\* f'epoch{self.epoch}_step{self.global_step}.ckpt'
CkptPath(e, g) == <<e, g>>

\* the values a valid_step can return and the ones a peer can contribute to
\* the all_gather (a peer reaches the collective only with a non-NaN metric)
StepMetrics == {NaN, Num(1), Num(3)}
PeerMetrics == {Num(1), Num(3)}
DefaultPatience == 3
FreqTags == {"batch", "epoch", "val_epoch", "none"}

\* the state Trainer.__init__ leaves, lines 60-75
TrainerInit ==
    /\ local_rank = -1
    /\ global_step = 0
    /\ valid_global_step = 0
    /\ epoch = 0
    /\ last_valid_metric = None
    /\ topk_ckpt_map = <<>>
    /\ patience = cfg_patience
    /\ pc = "init"
    /\ batch_i = 0
    /\ metric_arr = <<>>
    /\ model_mode = "train"
    /\ optimizer_steps = 0
    /\ warmup_sched_steps = 0
    /\ sched_steps = 0
    /\ blobs = {}
    /\ manifest = <<>>
    /\ config_manifest = FALSE
    /\ inserted = <<>>
    /\ seen_metrics = <<>>
    /\ improved = FALSE
    /\ since_improve = 0
    /\ best_metric = None

\* no backward pass yet
GradIdle == grad_pc = "idle" /\ grad_raw = <<>> /\ grad = <<>>
VerIdle  == dir_exists = FALSE /\ dir_entries = {} /\ versions = <<>>
\* no process group
DistIdle == procs = <<>>

\* the state after Trainer.__init__ for the configurations in the given sets
InitWith(Topks, Patiences, Warmups, Freqs, Epochs) ==
    /\ save_topk \in Topks
    /\ metric_min_better \in BOOLEAN
    /\ max_epoch \in Epochs
    /\ warmup \in Warmups
    /\ cfg_patience \in Patiences
    /\ sched_freq \in Freqs
    /\ TrainerInit

\* train(), lines 229-249: the rank is set and the coordinator creates the
\* checkpoint directory and writes train_config.json
TrainStart(rank) ==
    /\ pc = "init"
    /\ local_rank' = rank
    /\ config_manifest' = (rank = 0 \/ rank = -1)
    /\ pc' = IF max_epoch > 0 THEN "train" ELSE "stopped"
    /\ UNCHANGED <<cfgVars, global_step, valid_global_step, epoch, last_valid_metric,
                   patience, batch_i, metric_arr, model_mode, collabVars, topkVars,
                   ghostVars, gradVars, verVars, distVars>>

\* the phase test on the batches of this epoch in the place of global_step
WarmupStepsPerEpoch(g) == batch_i + 1 < warmup

\* the phase test with <= in the place of <
WarmupStepsInclusive(g) == g <= warmup

\* `if self.global_step < self.config.warmup`, g the incremented global_step
WarmupSteps(g) == g < warmup

\* the NaN test that lets a NaN loss through to optimizer.step()
StepAppliedOnNaN(outcome) == outcome \in {"ok", "nan_loss"}

\* whether the iteration reaches optimizer.step(): neither the `continue` of
\* a NaN loss or of an out-of-memory error nor the re-raise was taken
StepApplied(outcome) == outcome = "ok"

\* one iteration of the batch loop of _train_epoch, lines 110-136.  g is
\* what loss.backward() leaves in the gradients: with the outcomes "ok" and
\* "nan_loss" the pass returned and replace_nan_gradients ran, with "oom" and
\* "fatal" the RuntimeError was raised by train_step or backward, before
\* replace_nan_gradients
TrainBatch(outcome, g) ==
    /\ pc = "train"
    /\ batch_i < NumTrainBatches
    /\ grad_raw' = g
    /\ IF outcome \in {"ok", "nan_loss"}
       THEN grad_pc' = "sanitized" /\ grad' = ReplaceNanGradients(g)
       ELSE grad_pc' = "raised" /\ grad' = g
    /\ IF StepApplied(outcome)
       THEN /\ optimizer_steps' = optimizer_steps + 1
            /\ global_step' = global_step + 1
            /\ warmup_sched_steps' =
                 IF WarmupSteps(global_step + 1) THEN warmup_sched_steps + 1
                 ELSE warmup_sched_steps
            /\ sched_steps' =
                 IF ~WarmupSteps(global_step + 1) /\ sched_freq = "batch"
                 THEN sched_steps + 1 ELSE sched_steps
            /\ batch_i' = batch_i + 1
            /\ pc' = pc
       ELSE IF outcome # "fatal"
       THEN /\ batch_i' = batch_i + 1
            /\ UNCHANGED <<optimizer_steps, global_step, warmup_sched_steps, sched_steps, pc>>
       ELSE /\ pc' = "aborted"
            /\ UNCHANGED <<optimizer_steps, global_step, warmup_sched_steps, sched_steps,
                           batch_i>>
    /\ UNCHANGED <<cfgVars, local_rank, valid_global_step, epoch, last_valid_metric,
                   patience, metric_arr, model_mode, topkVars, config_manifest,
                   ghostVars, verVars, distVars>>

\* the end of _train_epoch, lines 137-138
TrainEpochEnd ==
    /\ pc = "train"
    /\ batch_i = NumTrainBatches
    /\ sched_steps' = IF global_step >= warmup /\ sched_freq = "epoch"
                      THEN sched_steps + 1 ELSE sched_steps
    /\ pc' = "valid_begin"
    /\ UNCHANGED <<cfgVars, stateVars, batch_i, metric_arr, model_mode, optimizer_steps,
                   warmup_sched_steps, topkVars, config_manifest, ghostVars, gradVars,
                   verVars, distVars>>

\* the head of _valid_epoch, lines 143-153
ValidBegin ==
    /\ pc = "valid_begin"
    /\ metric_arr' = <<>>
    /\ seen_metrics' = <<>>
    /\ model_mode' = "eval"
    /\ batch_i' = 0
    /\ pc' = "valid"
    /\ UNCHANGED <<cfgVars, stateVars, collabVars, topkVars, config_manifest, improved,
                   since_improve, best_metric, gradVars, verVars, distVars>>

\* one iteration of the batch loop of _valid_epoch, lines 154-170; peers are
\* the values the other ranks bring to the all_gather
ValidBatch(metric, peers) ==
    /\ pc = "valid"
    /\ batch_i < NumValidBatches
    /\ batch_i' = batch_i + 1
    /\ IF IsNaN(metric)
       THEN /\ seen_metrics' = Append(seen_metrics, metric)
            /\ UNCHANGED <<metric_arr, valid_global_step>>
       ELSE /\ valid_global_step' = valid_global_step + 1
            /\ IF Distributed
               THEN IF IsMainProc
                    THEN /\ metric_arr' = metric_arr \o Gathered(metric, peers)
                         /\ seen_metrics' = seen_metrics \o <<metric>> \o peers
                    ELSE /\ metric_arr' = metric_arr
                         /\ seen_metrics' = Append(seen_metrics, metric)
               ELSE /\ metric_arr' = Append(metric_arr, metric)
                    /\ seen_metrics' = Append(seen_metrics, metric)
    /\ UNCHANGED <<cfgVars, local_rank, global_step, epoch, last_valid_metric, patience,
                   pc, model_mode, collabVars, topkVars, config_manifest, improved,
                   since_improve, best_metric, gradVars, verVars, distVars>>

\* valid_step (or the transfer to the device) raises inside the loop
ValidStepRaise ==
    /\ pc = "valid"
    /\ batch_i < NumValidBatches
    /\ pc' = "aborted"
    /\ UNCHANGED <<cfgVars, stateVars, batch_i, metric_arr, model_mode, collabVars,
                   topkVars, config_manifest, ghostVars, gradVars, verVars, distVars>>

\* the tail of _valid_epoch, lines 171-192
ValidEpochEnd ==
    /\ pc = "valid"
    /\ batch_i = NumValidBatches
    /\ model_mode' = "train"
    /\ pc' = "loop"
    /\ IF IsMainProc
       THEN LET valid_metric == NanMean(metric_arr)
                save_path == CkptPath(epoch, global_step)
                r == MaintainTopk(topk_ckpt_map, blobs \cup {save_path}, manifest,
                                  valid_metric, save_path)
            IN  /\ IF MetricBetter(valid_metric)
                   THEN /\ patience' = cfg_patience
                        /\ topk_ckpt_map' = r.map
                        /\ blobs' = r.files
                        /\ manifest' = r.manifest
                        /\ improved' = TRUE
                        /\ since_improve' = 0
                   ELSE /\ patience' = PatienceDecr(patience)
                        /\ improved' = FALSE
                        /\ since_improve' = since_improve + 1
                        /\ UNCHANGED <<topk_ckpt_map, blobs, manifest>>
                /\ last_valid_metric' = valid_metric
                /\ best_metric' = BestOf(best_metric, valid_metric)
                /\ sched_steps' = IF global_step >= warmup /\ sched_freq = "val_epoch"
                                  THEN sched_steps + 1 ELSE sched_steps
       ELSE UNCHANGED <<patience, topk_ckpt_map, blobs, manifest, improved,
                        since_improve, best_metric, last_valid_metric, sched_steps>>
    /\ metric_arr' = <<>>
    /\ UNCHANGED <<cfgVars, local_rank, global_step, valid_global_step, epoch, batch_i,
                   optimizer_steps, warmup_sched_steps, inserted,
                   config_manifest, seen_metrics, gradVars, verVars, distVars>>

\* the foot of the epoch loop of train(), lines 250 and 255-257
TrainLoopNext ==
    /\ pc = "loop"
    /\ epoch' = epoch + 1
    /\ pc' = IF PatienceExhausted(patience) \/ epoch + 1 >= max_epoch THEN "stopped" ELSE "train"
    /\ batch_i' = 0
    /\ seen_metrics' = <<>>
    /\ UNCHANGED <<cfgVars, local_rank, global_step, valid_global_step, last_valid_metric,
                   patience, metric_arr, model_mode, collabVars, topkVars,
                   config_manifest, improved, since_improve, best_metric, gradVars, verVars, distVars>>

\* lines 178-181 called on their own: the blob is saved under a fresh path
\* and the record is inserted into the collection
InsertCkpt(metric) ==
    /\ pc = "init"
    /\ Len(inserted) < MaxInserts
    /\ LET path == CkptPath(Len(inserted), 0)
           r == MaintainTopk(topk_ckpt_map, blobs \cup {path}, manifest, metric, path)
       IN  /\ topk_ckpt_map' = r.map
           /\ blobs' = r.files
           /\ manifest' = r.manifest
           /\ inserted' = Append(inserted, <<metric, path>>)
    /\ UNCHANGED <<cfgVars, stateVars, posVars, collabVars, config_manifest, ghostVars,
                   gradVars, verVars, distVars>>

TrainOutcomes == {"ok", "nan_loss", "oom", "fatal"}

PeerSeqs(Peers) == [1..(WorldSize - 1) -> Peers]

\* the steps of a process running train(), its environment drawing the
\* outcome and the gradients of every train step and the value of every
\* validation step
NextWith(Outcomes, Grads, Metrics, Peers) ==
    \/ \E rank \in -1..(WorldSize - 1) : TrainStart(rank)
    \/ (pc = "train" /\ \E outcome \in Outcomes : \E g \in Grads : TrainBatch(outcome, g))
    \/ TrainEpochEnd
    \/ ValidBegin
    \/ \E metric \in Metrics :
         \E peers \in (IF local_rank = 0 THEN PeerSeqs(Peers) ELSE {<<>>}) :
            ValidBatch(metric, peers)
    \/ ValidStepRaise
    \/ ValidEpochEnd
    \/ TrainLoopNext

\* a run of train() with the default patience and scheduler, under every
\* retention count and metric direction
Init == InitWith(-1..MaxTopk, {DefaultPatience}, {1}, {"val_epoch"}, {MaxEpoch})
        /\ GradIdle /\ VerIdle /\ DistIdle
Next == NextWith({"ok", "fatal"}, GradSample, StepMetrics, {Num(1)})
Spec == Init /\ [][Next]_vars

\* the top-k checkpoint collection under arbitrary inserts
InsertMetrics == {NaN, Num(1), Num(3), Num(5), Num(8)}
InitTopK == InitWith(-1..MaxTopk, {DefaultPatience}, {1}, {"val_epoch"}, {MaxEpoch})
            /\ GradIdle /\ VerIdle /\ DistIdle
NextTopK == \E metric \in InsertMetrics : InsertCkpt(metric)
SpecTopK == InitTopK /\ [][NextTopK]_vars

\* runs long enough for the patience counter to run out
InitPatience == InitWith({1}, 0..DefaultPatience, {1}, {"val_epoch"}, {PatienceEpochs})
                /\ GradIdle /\ VerIdle /\ DistIdle
NextPatience == NextWith({"ok", "fatal"}, GradSample, {Num(1), Num(3)}, {Num(1)})
SpecPatience == InitPatience /\ [][NextPatience]_vars

\* the scheduler phase machine under every warmup length and frequency tag
InitSched == InitWith({1}, {DefaultPatience}, 0..MaxWarmup, FreqTags, {MaxEpoch})
             /\ GradIdle /\ VerIdle /\ DistIdle
NextSched == NextWith(TrainOutcomes, GradSample, {Num(1)}, {Num(1)})
SpecSched == InitSched /\ [][NextSched]_vars

\* the training epoch of a single process under every gradient
InitGrad == InitWith({-1}, {DefaultPatience}, {1, 2}, {"val_epoch"}, {MaxEpoch})
            /\ metric_min_better /\ GradIdle /\ VerIdle /\ DistIdle
NextGrad ==
    \/ TrainStart(-1)
    \/ (pc = "train" /\ \E outcome \in TrainOutcomes :
                            \E g \in GradTensors : TrainBatch(outcome, g))
    \/ TrainEpochEnd
SpecGrad == InitGrad /\ [][NextGrad]_vars

\* the validation phases of a short run, under every value of a step
InitValid == InitWith({-1}, {DefaultPatience}, {1}, {"val_epoch"}, {ValidEpochs})
             /\ metric_min_better /\ GradIdle /\ VerIdle /\ DistIdle
NextValid == NextWith({"ok", "fatal"}, GradSample, StepMetrics, PeerMetrics)
SpecValid == InitValid /\ [][NextValid]_vars

(***************************************************************************)
(* The run-version resolver.  A file name is a sequence of tokens: "V" is  *)
(* the text version_, a digit is itself and "x" is any other character.    *)
(***************************************************************************)
Digits == {"0", "1", "2", "5"}
DigitVal(c) == CASE c = "0" -> 0 [] c = "1" -> 1 [] c = "2" -> 2 [] c = "5" -> 5

\* int() of the digits name[i..j]
RECURSIVE IntOf(_, _, _)
IntOf(name, i, j) ==
    IF j < i THEN 0 ELSE 10 * IntOf(name, i, j - 1) + DigitVal(name[j])

\* the places where r'version_(\d+)' matches in name
MatchStarts(name) ==
    {i \in 1..(Len(name) - 1) : name[i] = "V" /\ name[i + 1] \in Digits}

\* the end of the greedy digit run that starts at i
DigitRunEnd(name, i) ==
    CHOOSE j \in i..Len(name) :
        /\ \A k \in i..j : name[k] \in Digits
        /\ (j = Len(name) \/ name[j + 1] \notin Digits)

FirstStart(name) == CHOOSE i \in MatchStarts(name) : \A k \in MatchStarts(name) : i <= k

\* int(re.findall(pattern, fname)[0]), for a name with a match
FirstVersion(name) ==
    LET i == FirstStart(name) IN IntOf(name, i + 1, DigitRunEnd(name, i + 1))

\* the version of the entry listed last, without the max
VersionLast(a, b) == a

\* max(int(ver[0]), version)
VersionMax(a, b) == IF a < b THEN b ELSE a

\* the loop of _get_version over the entries in the order os.listdir gave
RECURSIVE ScanVersion(_, _)
ScanVersion(listing, version) ==
    IF Len(listing) = 0 THEN version
    ELSE ScanVersion(Tail(listing),
            IF MatchStarts(Head(listing)) # {}
            THEN VersionMax(FirstVersion(Head(listing)), version)
            ELSE version)

\* _get_version
GetVersionOf(exists, listing) ==
    (IF exists THEN ScanVersion(listing, -1) ELSE -1) + 1

NamePool ==
    { <<"V", "0">>, <<"V", "2">>, <<"V", "5">>,        \* version_0, version_2, version_5
      <<"V", "1", "0">>,                               \* version_10
      <<"V", "0", "5">>,                               \* version_05
      <<"x", "V", "1", "x">>,                          \* xversion_1x
      <<"V", "1", "x", "V", "5">>,                     \* version_1xversion_5
      <<"V">>, <<"V", "x", "2">>, <<"x", "5">> }       \* no match

Listings(entries) ==
    {l \in [1..Cardinality(entries) -> entries] :
        \A i, j \in 1..Cardinality(entries) : l[i] = l[j] => i = j}

\* one call of _get_version, os.listdir giving the entries in any order
GetVersion(listing) ==
    /\ pc = "init"
    /\ Len(versions) < MaxCalls
    /\ versions' = Append(versions, GetVersionOf(dir_exists, listing))
    /\ UNCHANGED <<cfgVars, stateVars, posVars, collabVars, topkVars, config_manifest,
                   ghostVars, gradVars, dir_exists, dir_entries, distVars>>

InitVersion ==
    /\ InitWith({-1}, {DefaultPatience}, {1}, {"val_epoch"}, {MaxEpoch})
    /\ metric_min_better
    /\ GradIdle
    /\ DistIdle
    /\ dir_exists \in BOOLEAN
    /\ dir_entries \in {e \in SUBSET NamePool : Cardinality(e) <= MaxEntries}
    /\ (~dir_exists => dir_entries = {})
    /\ versions = <<>>
NextVersion == \E listing \in Listings(dir_entries) : GetVersion(listing)
SpecVersion == InitVersion /\ [][NextVersion]_vars

(***************************************************************************)
(* A multi-process run: WorldSize processes, ranks 0..WorldSize-1, each    *)
(* running train() on its own Trainer.  They meet only in                  *)
(* torch.distributed.all_gather (line 163): the calls of the processes     *)
(* are matched in the order each process makes them, a call returns once   *)
(* every process has made the matching call, and it returns the values of  *)
(* those calls.  The training epoch is one step; the gradient              *)
(* synchronization of the wrapped model is not modelled.                   *)
(***************************************************************************)
Ranks == 0..(WorldSize - 1)

\* every process judging the validation phase
IsMainProcOfAny(rank) == TRUE

\* _is_main_proc on the process with that rank
IsMainProcOf(rank) == rank = 0 \/ rank = -1

\* the values of valid_step in the multi-process runs
DistMetrics == {NaN, Num(1)}

\* the fields Trainer.__init__ leaves (lines 70-75), the process not started;
\* metric is the value the process has handed to the all_gather it waits in
\* (None outside); epochs_run counts the completed passes through the loop
\* body
ProcInit ==
    [pc |-> "init", epoch |-> 0, batch_i |-> 0, patience |-> cfg_patience,
     last_valid_metric |-> None, metric_arr |-> <<>>, metric |-> None, epochs_run |-> 0]

soloVars == <<cfgVars, stateVars, posVars, collabVars, topkVars, config_manifest,
              ghostVars, gradVars, verVars>>

\* train() up to the epoch loop, lines 229-250
DistTrainStart(r) ==
    /\ procs[r].pc = "init"
    /\ procs' = [procs EXCEPT ![r].pc = IF max_epoch > 0 THEN "train" ELSE "stopped"]
    /\ UNCHANGED soloVars

\* _train_epoch and the head of _valid_epoch, lines 252-254 and 143-153
DistTrainEpoch(r) ==
    /\ procs[r].pc = "train"
    /\ procs' = [procs EXCEPT ![r].pc = "valid", ![r].batch_i = 0,
                                ![r].metric_arr = <<>>]
    /\ UNCHANGED soloVars

\* a validation batch up to the all_gather, lines 155-163: a NaN metric
\* continues with the next batch, any other is handed to all_gather
DistValidStep(r, metric) ==
    /\ procs[r].pc = "valid"
    /\ procs[r].batch_i < NumValidBatches
    /\ procs' = IF IsNaN(metric)
                THEN [procs EXCEPT ![r].batch_i = @ + 1]
                ELSE [procs EXCEPT ![r].pc = "gather", ![r].metric = metric]
    /\ UNCHANGED soloVars

\* every process has made the call: the all_gather returns on all of them
\* with the values in rank order and their batches end, lines 163-170
AllGather ==
    /\ \A r \in Ranks : procs[r].pc = "gather"
    /\ procs' = [r \in Ranks |->
                   [procs[r] EXCEPT
                      !.pc = "valid",
                      !.batch_i = @ + 1,
                      !.metric = None,
                      !.metric_arr =
                          IF IsMainProcOf(r)
                          THEN @ \o [k \in 1..WorldSize |-> procs[k - 1].metric]
                          ELSE @]]
    /\ UNCHANGED soloVars

\* the tail of _valid_epoch, lines 171-184, and the foot of the epoch loop,
\* lines 255-257
DistValidEnd(r) ==
    LET valid_metric == NanMean(procs[r].metric_arr)
        better == MetricBetterThan(procs[r].last_valid_metric, valid_metric)
        new_patience == IF ~IsMainProcOf(r) THEN procs[r].patience
                        ELSE IF better THEN cfg_patience
                        ELSE PatienceDecr(procs[r].patience)
    IN
    /\ procs[r].pc = "valid"
    /\ procs[r].batch_i = NumValidBatches
    /\ procs' = [procs EXCEPT
                    ![r].patience = new_patience,
                    ![r].last_valid_metric = IF IsMainProcOf(r) THEN valid_metric ELSE @,
                    ![r].metric_arr = <<>>,
                    ![r].epoch = @ + 1,
                    ![r].epochs_run = @ + 1,
                    ![r].pc = IF PatienceExhausted(new_patience)
                                 \/ procs[r].epoch + 1 >= max_epoch
                              THEN "stopped" ELSE "train"]
    /\ UNCHANGED soloVars

InitDist ==
    /\ InitWith({1}, 0..1, {1}, {"val_epoch"}, {MaxEpoch})
    /\ metric_min_better
    /\ GradIdle
    /\ VerIdle
    /\ procs = [r \in Ranks |-> ProcInit]
NextDist ==
    \/ \E r \in Ranks :
          \/ DistTrainStart(r)
          \/ DistTrainEpoch(r)
          \/ \E metric \in DistMetrics : DistValidStep(r, metric)
          \/ DistValidEnd(r)
    \/ AllGather
SpecDist == InitDist /\ [][NextDist]_vars

(***************************************************************************)
(* Properties                                                              *)
(***************************************************************************)
Min(a, b) == IF a < b THEN a ELSE b
Max(a, b) == IF a < b THEN b ELSE a

MetricsOf(map) == [i \in 1..Len(map) |-> map[i][1]]
PathsOf(map) == {map[i][2] : i \in 1..Len(map)}

\* C1: for every save_topk >= 0, save_topk = 0 included, the collection never
\* holds more than save_topk records after an insert
C1_LengthAtMostTopk ==
    save_topk >= 0 => Len(topk_ckpt_map) <= save_topk

\* C2: the retained collection is sorted best-first: no record is strictly
\* better than a record that precedes it
C2_SortedBestFirst ==
    \A i, j \in 1..Len(topk_ckpt_map) :
        i < j => ~Better(topk_ckpt_map[j][1], topk_ckpt_map[i][1])

\* the inserts 5, 3, 8, 1 with max-better and no eviction end as 8, 5, 3, 1
C2_Witness ==
    /\ ~metric_min_better
    /\ save_topk = -1
    /\ MetricsOf(inserted) = <<Num(5), Num(3), Num(8), Num(1)>>
    /\ MetricsOf(topk_ckpt_map) = <<Num(8), Num(5), Num(3), Num(1)>>

\* the place of the i-th inserted record in a stable best-first sort: after
\* the records strictly better than it and the earlier ones of equal metric
RefRank(i) ==
    1 + Cardinality({j \in 1..Len(inserted) :
            \/ Better(inserted[j][1], inserted[i][1])
            \/ (j < i /\ ~Better(inserted[i][1], inserted[j][1]))})

RefSorted ==
    [k \in 1..Len(inserted) |->
        inserted[CHOOSE i \in 1..Len(inserted) : RefRank(i) = k]]

RefKept ==
    IF save_topk = -1 THEN RefSorted
    ELSE SubSeq(RefSorted, 1, Min(save_topk, Len(inserted)))

NoNaNInserted == \A i \in 1..Len(inserted) : ~IsNaN(inserted[i][1])

\* C3: after every insert the retained collection is the stable best-first
\* sort of all inserted records cut to its first save_topk records (all of
\* them when save_topk = -1)
C3_EqualsReference ==
    NoNaNInserted => topk_ckpt_map = RefKept

\* C4: on the coordinator the blobs in the checkpoint directory are exactly
\* the paths of the retained records
C4_BlobsAreRetained ==
    IsMainProc => blobs = PathsOf(topk_ckpt_map)

\* the checkpoint saved by this validation phase was itself the one evicted
C4_Witness ==
    /\ pc = "loop"
    /\ IsMainProc
    /\ improved
    /\ save_topk = 1
    /\ Len(topk_ckpt_map) = 1
    /\ topk_ckpt_map[1][2][1] < epoch
    /\ blobs = {topk_ckpt_map[1][2]}

\* C5: once an insert has completed the manifest holds one line per retained
\* record, in retained order, and nothing else
C5_ManifestIsRetained ==
    Len(inserted) > 0 =>
        /\ Len(manifest) = Len(topk_ckpt_map)
        /\ \A i \in 1..Len(manifest) :
              /\ manifest[i][1] = topk_ckpt_map[i][1]
              /\ manifest[i][2] = ": "
              /\ manifest[i][3] = topk_ckpt_map[i][2]
              /\ manifest[i][4] = "\n"

\* an insert with eviction has completed: min-better, save_topk = 2, inserts
\* 5, 3, 8, 1 leave the lines of 1 and 3
C5_Witness ==
    /\ metric_min_better
    /\ save_topk = 2
    /\ MetricsOf(inserted) = <<Num(5), Num(3), Num(8), Num(1)>>
    /\ Len(manifest) = 2
    /\ manifest[1][1] = Num(1)
    /\ manifest[2][1] = Num(3)

Running == pc \in {"train", "valid_begin", "valid"}

\* C6: on the coordinator the patience counter is config.patience less the
\* number of validation phases since the last improvement, and the run does
\* not go on after a validation phase that left it at zero or below
C6_PatienceCounter ==
    IsMainProc =>
        /\ patience = cfg_patience - since_improve
        /\ (improved => patience = cfg_patience)
        /\ (Running /\ epoch > 0 => patience > 0)
        /\ (pc = "stopped" /\ epoch < max_epoch => patience <= 0)

\* patience 3 and the outcomes improve, no, no, no: the counter reached 0 and
\* the run stopped after the fourth of five epochs
C6_Witness ==
    /\ IsMainProc
    /\ cfg_patience = 3
    /\ max_epoch = 5
    /\ pc = "stopped"
    /\ epoch = 4
    /\ since_improve = 3
    /\ patience = 0

\* C7 as stated: the warmup scheduler has been stepped once for every applied
\* batch that started with global_step in 0..W-1, W steps in all
C7_WarmupStepsW ==
    warmup_sched_steps = Min(global_step, warmup)

\* C7 amended: global_step is incremented before the phase test, so the
\* warmup scheduler is stepped by the applied batches that leave global_step
\* in 1..W-1; the main scheduler is not stepped while global_step < W, with
\* the tag batch it is stepped by every applied batch from the one that
\* brings global_step to W, with the tag epoch (val_epoch) it has been
\* stepped once a training epoch (a validation phase of the coordinator) has
\* ended with global_step >= W
C7_SchedulerPhases ==
    /\ warmup_sched_steps = Min(global_step, Max(warmup - 1, 0))
    /\ (global_step < warmup => sched_steps = 0)
    /\ (sched_freq = "batch" => sched_steps = global_step - warmup_sched_steps)
    /\ (sched_freq = "epoch" /\ pc \in {"valid_begin", "valid", "loop"}
            /\ global_step >= warmup => sched_steps >= 1)
    /\ (sched_freq = "val_epoch" /\ pc = "loop" /\ IsMainProc
            /\ global_step >= warmup => sched_steps >= 1)
    /\ (sched_freq = "none" => sched_steps = 0)

\* warmup 3 and the tag batch: two warmup steps, then the third applied batch
\* starts the main scheduler
C7_Witness ==
    /\ warmup = 3
    /\ sched_freq = "batch"
    /\ global_step = 3
    /\ warmup_sched_steps = 2
    /\ sched_steps = 1

RECURSIVE SumNum(_)
SumNum(arr) ==
    IF Len(arr) = 0 THEN 0
    ELSE (IF IsNaN(Head(arr)) THEN 0 ELSE Head(arr)[1]) + SumNum(Tail(arr))

NonNaN(arr) == {i \in 1..Len(arr) : ~IsNaN(arr[i])}

Sanitized == grad_pc = "sanitized"

Entries == {<<p, k>> \in (1..NumParams) \X (1..GradLen) :
                Sanitized /\ grad_raw[p] # None}

Matching == {e \in dir_entries : MatchStarts(e) # {}}

\* C10: every call returns zero when the directory is missing or no entry
\* holds the pattern, else one more than the largest number the pattern
\* finds first in an entry; calls on the same snapshot agree; version_0,
\* version_2, version_5 give 6
C10_NextVersion ==
    \A c \in 1..Len(versions) :
        LET v == versions[c] IN
        /\ (v = 0) = (Matching = {})
        /\ \A e \in Matching : FirstVersion(e) < v
        /\ (v > 0 => \E e \in Matching : FirstVersion(e) = v - 1)
        /\ versions[c] = versions[1]
        /\ (dir_entries = {<<"V", "0">>, <<"V", "2">>, <<"V", "5">>} => v = 6)
        /\ (dir_entries = {<<"V", "1", "0">>, <<"V", "0", "5">>, <<"x", "5">>} => v = 11)

\* two calls on version_0, version_2, version_5 both gave 6
C10_Witness ==
    /\ dir_entries = {<<"V", "0">>, <<"V", "2">>, <<"V", "5">>}
    /\ versions = <<6, 6>>

\* C11: on every exit path of the validation phase, a failing validation
\* step included, the model is back in training mode: it is in evaluation
\* mode only while the phase runs
C11_TrainModeOnEveryExit ==
    pc # "valid" => model_mode = "train"

\* C12: a validation phase whose aggregate is NaN is never taken for an
\* improvement, the first phase (last_valid_metric unset) included: the
\* coordinator's judgement of a NaN aggregate takes the other branch and no
\* record with a NaN metric is in the collection
C12_NaNNeverImproves ==
    IsMainProc =>
        /\ (pc = "loop" /\ IsNaN(last_valid_metric) => ~improved)
        /\ \A i \in 1..Len(topk_ckpt_map) : ~IsNaN(topk_ckpt_map[i][1])

\* C14: global_step never decreases and grows by one exactly with each
\* optimizer step; a batch skipped for a NaN loss or an out-of-memory error
\* steps neither the optimizer nor a scheduler, leaves global_step and goes on
\* with the next batch; the validation phase leaves global_step
C14_GlobalStep ==
    [][ /\ global_step' >= global_step
        /\ global_step' - global_step <= 1
        /\ global_step' - global_step = optimizer_steps' - optimizer_steps
        /\ \A o \in {"nan_loss", "oom"} : \A g \in GradSample :
              TrainBatch(o, g) =>
                 /\ UNCHANGED <<global_step, optimizer_steps, warmup_sched_steps,
                                sched_steps>>
                 /\ pc' = "train"
                 /\ batch_i' = batch_i + 1
        /\ (pc \in {"valid_begin", "valid", "loop"} => global_step' = global_step)
      ]_vars

\* the second epoch has run its two batches after the two of the first, three
\* of the four were applied and the last one was skipped for out-of-memory
C14_Witness ==
    /\ pc = "train"
    /\ epoch = 1
    /\ batch_i = NumTrainBatches
    /\ grad_pc = "raised"
    /\ global_step = 2 * NumTrainBatches - 1
    /\ optimizer_steps = global_step

\* C15: the coordinator's judgement at the end of a validation phase takes
\* the new aggregate for an improvement exactly when there was no phase
\* before or the aggregate is strictly better than the one of the phase just
\* before; an equal value is no improvement; patience follows the judgement
\* and last_valid_metric is the new aggregate either way
C15_ComparesWithPrevious ==
    [][ (pc = "valid" /\ pc' = "loop" /\ IsMainProc) =>
          LET old == last_valid_metric
              new == NanMean(metric_arr)
          IN  /\ last_valid_metric' = new
              /\ improved' = (\/ old = None
                              \/ (metric_min_better /\ Lt(new, old))
                              \/ (~metric_min_better /\ Lt(old, new)))
              /\ (new = old => ~improved')
              /\ patience' = IF improved' THEN cfg_patience ELSE patience - 1
      ]_vars

\* min-better aggregates 1, 3, 2: the third phase is an improvement on 3
\* although 1 was better
C15_Witness ==
    /\ pc = "loop"
    /\ IsMainProc
    /\ metric_min_better
    /\ epoch = 2
    /\ improved
    /\ last_valid_metric = Num(2)
    /\ best_metric = Num(1)
    /\ patience = cfg_patience

\* C16: once global_step has reached the warmup threshold it stays there and
\* the warmup scheduler is not stepped again; the main scheduler is stepped
\* only from then on, and no step of the run steps both schedulers
C16_PhaseIrreversible ==
    [][ /\ (global_step >= warmup => global_step' >= warmup)
        /\ (global_step >= warmup => warmup_sched_steps' = warmup_sched_steps)
        /\ (sched_steps' # sched_steps => global_step' >= warmup)
        /\ ~(warmup_sched_steps' # warmup_sched_steps /\ sched_steps' # sched_steps)
      ]_vars

\* warmup 2 and the tag epoch: one warmup step in the first epoch, none in
\* the second, the main scheduler stepped at the end of both
C16_Witness ==
    /\ warmup = 2
    /\ sched_freq = "epoch"
    /\ pc = "train"
    /\ epoch = 2
    /\ global_step = 2 * NumTrainBatches
    /\ warmup_sched_steps = 1
    /\ sched_steps = 2

C20_BestEverRetained ==
    (IsMainProc /\ save_topk # 0 /\ best_metric # None) =>
        \E i \in 1..Len(topk_ckpt_map) : topk_ckpt_map[i][1] = best_metric

AllStopped == \A r \in Ranks : procs[r].pc = "stopped"

\* C13: the processes waiting in the all_gather are there for the same
\* validation batch of the same epoch, and no process is left waiting in it
\* with no process able to move, whatever batches gave NaN
C13_GatherTogether ==
    /\ \A r, q \in Ranks :
          (procs[r].pc = "gather" /\ procs[q].pc = "gather") =>
             /\ procs[r].epoch = procs[q].epoch
             /\ procs[r].batch_i = procs[q].batch_i
    /\ ((\E r \in Ranks : procs[r].pc = "gather") => ENABLED NextDist)

\* C17: without a fatal failure the run comes to its end on every process:
\* it is never stuck before all processes have stopped; a process runs at
\* most max_epoch epochs and has stopped only with epoch = max_epoch or right
\* after a validation phase that left patience at zero or below, its epoch
\* counter being the number of epochs it ran
C17_RunReachesStopped ==
    /\ \A r \in Ranks :
          /\ procs[r].epoch <= max_epoch
          /\ procs[r].epoch = procs[r].epochs_run
          /\ (procs[r].pc = "stopped" =>
                \/ procs[r].epoch = max_epoch
                \/ (procs[r].epoch > 0 /\ procs[r].patience <= 0))
    /\ (AllStopped \/ ENABLED NextDist)

Workers == Ranks \ {0}

\* C19 as stated: a worker's patience and last_valid_metric are as
\* constructed and a worker has stopped only after max_epoch epochs
C19_WorkerRunsAllEpochs ==
    \A r \in Workers :
        /\ procs[r].patience = cfg_patience
        /\ procs[r].last_valid_metric = None
        /\ (procs[r].pc = "stopped" => procs[r].epoch = max_epoch)

\* C19 amended: a worker's patience and last_valid_metric are as
\* constructed; with config.patience >= 1 a worker has stopped only after
\* max_epoch epochs, whatever the coordinator did; with config.patience <= 0
\* the test `patience <= 0` ends its loop after the first epoch
C19_WorkerPatienceUntouched ==
    \A r \in Workers :
        /\ procs[r].patience = cfg_patience
        /\ procs[r].last_valid_metric = None
        /\ (procs[r].pc = "stopped" =>
              procs[r].epoch = IF cfg_patience >= 1 THEN max_epoch
                               ELSE Min(1, max_epoch))

\* the coordinator has stopped on patience after two epochs and a worker,
\* its patience untouched, is in its third
C19_Witness ==
    /\ cfg_patience = 1
    /\ procs[0].pc = "stopped"
    /\ procs[0].epoch = 2
    /\ procs[0].patience = 0
    /\ procs[1].pc = "valid"
    /\ procs[1].epoch = 2
    /\ procs[1].patience = 1

====
